---- MODULE Spec2Model ----
(***************************************************************************)
(* A model of cntx: the NCA parser (src/src/nca.rs), the PFS0 reader and   *)
(* its file reader (src/src/pfs0.rs) and the RomFs reader (romfs.rs, after *)
(* the specification).                                                     *)
(*                                                                         *)
(* Byte strings are abstracted: a 16-byte AES block and a 16-byte key are  *)
(* small naturals, the 0x40-byte key area is a sequence of four blocks.    *)
(* Vec<T> is a sequence (index idx of the code is idx + 1 here), a fixed   *)
(* array [T; N] is a function over 0..N-1.                                 *)
(***************************************************************************)
EXTENDS Integers, Sequences, FiniteSets, TLC

(***************************************************************************)
(* Bounds of the model.                                                    *)
(***************************************************************************)
\* largest value of the header bytes key_generation_old / key_generation
MaxKeyGeneration == 2
\* largest number of keys in one array of the keyset
MaxKeys == 2
\* number of section-header layouts the archive is drawn from
NumLayouts == 6

(***************************************************************************)
(* Program constants (nca.rs).                                             *)
(***************************************************************************)
MAX_FILESYSTEM_COUNT == 4
MEDIA_UNIT_SIZE == 512
\* size_of::<nca::Header>() and size_of::<FileSystemHeader>()
NCA_HEADER_SIZE == 1024
FS_HEADER_SIZE == 512
\* Header::MAGIC = "NCA3" little endian, abstracted to a tag
NCA_MAGIC == "NCA3"

\* size_of::<pfs0::Header>() and size_of::<FileEntry>() (pfs0.rs)
PFS0_HEADER_SIZE == 16
FILE_ENTRY_SIZE == 24
\* size of the RomFS header (romfs.rs)
ROMFS_HEADER_SIZE == 80
\* bytes of the tables that follow the header of the inner filesystems of the
\* model: one PFS0 file entry and an 8-byte string table
INNER_TABLES_SIZE == FILE_ENTRY_SIZE + 8

Sections == 0..(MAX_FILESYSTEM_COUNT - 1)

KeyAreaKinds == {"Application", "Ocean", "System"}
\* the byte at header offset 0x207: a valid discriminant, or any other byte
KeyIndexBytes == KeyAreaKinds \cup {"InvalidByte"}

FileSystemTypes == {"RomFs", "PartitionFs"}
EncryptionTypes == {"Auto", "None", "AesCtrOld", "AesCtr", "AesCtrEx"}

(***************************************************************************)
(* AES-128-ECB without padding, as used through block_modes::Ecb: every    *)
(* 16-byte block is decrypted on its own, the "iv" is ignored.  The block  *)
(* cipher is abstracted to a keyed permutation of BlockMod values that is  *)
(* not the identity for any key of the model (keys are 1..BlockMod-1).     *)
(***************************************************************************)
BlockMod == 97

AesDecryptBlock(key, block) == (block + key) % BlockMod

EcbDecrypt(key, blocks) == [b \in DOMAIN blocks |-> AesDecryptBlock(key, blocks[b])]

(***************************************************************************)
(* KeyArea (nca.rs 75-98): bytes 0..0x20, 0x20..0x30, 0x30..0x40 of a      *)
(* 0x40-byte slice, i.e. blocks 1-2, 3 and 4.                              *)
(***************************************************************************)
KeyAreaEmpty == [aes_xts_key |-> <<0, 0>>, aes_ctr_key |-> 0, unk_key |-> 0]

KeyAreaFromSlice(slice) ==
    [aes_xts_key |-> <<slice[1], slice[2]>>,
     aes_ctr_key |-> slice[3],
     unk_key     |-> slice[4]]

KeyAreaAsSlice(ka) == <<ka.aes_xts_key[1], ka.aes_xts_key[2], ka.aes_ctr_key, ka.unk_key>>

(***************************************************************************)
(* The keyset handed to NCA::new.  Only the array lengths vary; the key    *)
(* at index i of an array is a value no other array holds.                 *)
(***************************************************************************)
KeyArray(base, len) == [i \in 1..len |-> base + i]

MakeKeyset(la, lo, ls, lt) ==
    [key_area_keys_application |-> KeyArray(10, la),
     key_area_keys_ocean       |-> KeyArray(20, lo),
     key_area_keys_system      |-> KeyArray(30, ls),
     title_key_encryption_keys |-> KeyArray(40, lt)]

Keysets ==
    { MakeKeyset(la, (la + 1) % (MaxKeys + 1), (la + 2) % (MaxKeys + 1), lt) :
        la \in 0..MaxKeys, lt \in 0..MaxKeys }

NoKeyset == MakeKeyset(0, 0, 0, 0)

\* Option<[u8; 0x10]>
NoneKey == [some |-> FALSE, key |-> 0]
SomeKey(k) == [some |-> TRUE, key |-> k]
TitleKeys == {NoneKey, SomeKey(5)}

(***************************************************************************)
(* The archive.  header is the XTS decryption (keyset.header_key, sectors  *)
(* 0-1) of bytes [0, 0x400), fs_headers that of bytes [0x400, 0xC00)       *)
(* (sectors 2-5); len is the length of the source in bytes.                *)
(***************************************************************************)
\* rights_id: 0 stands for [0; 0x10], any other value for a non-zero id
RightsIds == {0, 7}

\* FileSystemEntry.start_offset of a present section, by section index
PresentStart(i) == 6 + 2 * i

FsEntryArrays ==
    { [i \in Sections |-> [start_offset |-> IF i \in present THEN PresentStart(i) ELSE 0,
                           end_offset   |-> IF i \in present THEN PresentStart(i) + 2 ELSE 0]] :
        present \in SUBSET Sections }

FsHeaderProfiles ==
    << [fs_type |-> "PartitionFs", encryption_type |-> "AesCtr",   generation |-> 0],
       [fs_type |-> "RomFs",       encryption_type |-> "AesCtr",   generation |-> 0],
       [fs_type |-> "PartitionFs", encryption_type |-> "AesCtr",   generation |-> 1],
       [fs_type |-> "RomFs",       encryption_type |-> "None",     generation |-> 0],
       [fs_type |-> "PartitionFs", encryption_type |-> "AesCtrEx", generation |-> 0],
       [fs_type |-> "RomFs",       encryption_type |-> "AesCtr",   generation |-> 1],
       [fs_type |-> "PartitionFs", encryption_type |-> "Auto",     generation |-> 0],
       [fs_type |-> "RomFs",       encryption_type |-> "AesCtrOld", generation |-> 0] >>

\* the section header of section i in layout r; ctr differs from section to section
MakeFsHeader(r, i) ==
    LET p == FsHeaderProfiles[((r + i) % Len(FsHeaderProfiles)) + 1]
    IN  [fs_type         |-> p.fs_type,
         encryption_type |-> p.encryption_type,
         generation      |-> p.generation,
         pfs0_offset     |-> 32 + i,
         ivfc_offset     |-> 64 + i,
         ctr             |-> 100 + i]

FsHeaderArrays == { [i \in Sections |-> MakeFsHeader(r, i)] : r \in 0..(NumLayouts - 1) }

ZeroedFsHeaders ==
    [i \in Sections |-> [fs_type |-> "RomFs", encryption_type |-> "Auto", generation |-> 0,
                         pfs0_offset |-> 0, ivfc_offset |-> 0, ctr |-> 0]]

MakeHeader(magic, old, new, kidx, rid, entries) ==
    [magic                         |-> magic,
     key_generation_old            |-> old,
     key_generation                |-> new,
     key_area_encryption_key_index |-> kidx,
     rights_id                     |-> rid,
     fs_entries                    |-> entries,
     encrypted_key_area            |-> <<1, 2, 3, 4>>]

ZeroedHeader ==
    [magic                         |-> "zero",
     key_generation_old            |-> 0,
     key_generation                |-> 0,
     key_area_encryption_key_index |-> "Application",
     rights_id                     |-> 0,
     fs_entries                    |-> [i \in Sections |-> [start_offset |-> 0, end_offset |-> 0]],
     encrypted_key_area            |-> <<0, 0, 0, 0>>]

\* archives whose key-related header fields vary
KeyVariedSources ==
    { [len        |-> len,
       header     |-> MakeHeader(magic, old, new, kidx, rid,
                         [i \in Sections |-> [start_offset |-> IF i \in {1, 3} THEN PresentStart(i) ELSE 0,
                                              end_offset   |-> IF i \in {1, 3} THEN PresentStart(i) + 2 ELSE 0]]),
       fs_headers |-> [i \in Sections |-> MakeFsHeader(0, i)]] :
        len   \in {NCA_HEADER_SIZE - 1, NCA_HEADER_SIZE, NCA_HEADER_SIZE + MAX_FILESYSTEM_COUNT * FS_HEADER_SIZE},
        magic \in {NCA_MAGIC, "NCA2"},
        old   \in 0..MaxKeyGeneration,
        new   \in 0..MaxKeyGeneration,
        kidx  \in KeyIndexBytes,
        rid   \in RightsIds }

\* archives whose sections vary
SectionVariedSources ==
    { [len        |-> NCA_HEADER_SIZE + MAX_FILESYSTEM_COUNT * FS_HEADER_SIZE + 4096,
       header     |-> MakeHeader(NCA_MAGIC, 0, 1, "Application", rid, entries),
       fs_headers |-> fsh] :
        rid \in RightsIds, entries \in FsEntryArrays, fsh \in FsHeaderArrays }

NcaSources == KeyVariedSources \cup SectionVariedSources

(***************************************************************************)
(* State.                                                                  *)
(***************************************************************************)
VARIABLES
    ncaSrc,        \* the archive behind NCA.reader (contents and length)
    ncaPos,        \* cursor of the shared source behind NCA.reader
    ncaPc,         \* "start", "header_read" (inside NCA::new), "ready", "failed", "aborted", "absent"
    newResult,     \* what NCA::new returned: "none", "Ok" or the ErrorKind
    keyset,        \* argument of NCA::new
    title_key,     \* argument of NCA::new
    hdrRead,       \* the header as decrypted at nca.rs 323
    rawFsHeaders,  \* the local array fs_headers of NCA::new (nca.rs 332-341)
    header,        \* NCA.header
    dec_key_area,  \* NCA.dec_key_area
    dec_title_key, \* NCA.dec_title_key
    fs_headers,    \* NCA.fs_headers, the active section list
    lastOpen,      \* the last open_pfs0_filesystem / open_romfs_filesystem call
    okOpens        \* history: the <<operation, index>> pairs that have returned Ok

ncaVars == <<ncaSrc, ncaPos, ncaPc, newResult, keyset, title_key, hdrRead, rawFsHeaders,
             header, dec_key_area, dec_title_key, fs_headers, lastOpen, okOpens>>

NoOpen ==
    [op |-> "none", idx |-> 0, result |-> "none", fs_start |-> -1,
     reader |-> [made |-> FALSE, base_offset |-> 0, ctr |-> 0, key |-> 0]]

(***************************************************************************)
(* The shared source: read_exact(buf) at the cursor.  The archive's header *)
(* sits at offset 0 and its section headers at 0x400; bytes read anywhere  *)
(* else do not decrypt to a header.                                        *)
(***************************************************************************)
CanReadExact(src, pos, n) == pos + n <= src.len

\* what other bytes of the archive decrypt to
GarbageHeader == [ZeroedHeader EXCEPT !.magic = "garbage"]

GarbageFsHeaders == [i \in Sections |-> [ZeroedFsHeaders[i] EXCEPT !.ctr = 255]]

HeaderAt(src, pos) ==
    IF pos = 0 THEN src.header ELSE GarbageHeader

FsHeadersAt(src, pos) ==
    IF pos = NCA_HEADER_SIZE THEN src.fs_headers ELSE GarbageFsHeaders

\* mutant: master key revisions 0 and 1 are not folded together
GetKeyGenerationNoDecrement(h) ==
    IF h.key_generation_old < h.key_generation THEN h.key_generation ELSE h.key_generation_old

(***************************************************************************)
(* Header::get_key_generation, nca.rs 150-165.                             *)
(***************************************************************************)
GetKeyGeneration(h) ==
    LET base_key_gen == IF h.key_generation_old < h.key_generation
                        THEN h.key_generation
                        ELSE h.key_generation_old
    IN  IF base_key_gen > 0 THEN base_key_gen - 1 ELSE base_key_gen

\* mutant: the magic is not checked
MagicOkAlways(h) == TRUE

\* nca.rs 325
MagicOk(h) == h.magic = NCA_MAGIC

\* nca.rs 344-348.  A byte that is no discriminant of KeyAreaEncryptionKeyIndex
\* makes the match undefined: any arm may be taken.
SelectedKinds(h) ==
    IF h.key_area_encryption_key_index \in KeyAreaKinds
    THEN {h.key_area_encryption_key_index}
    ELSE KeyAreaKinds

KeyAreaKeys(ks, kind) ==
    CASE kind = "Application" -> ks.key_area_keys_application
      [] kind = "Ocean"       -> ks.key_area_keys_ocean
      [] kind = "System"      -> ks.key_area_keys_system

\* mutant: the check is off by one
KeyGenMissingOffByOne(key_gen, keys) == key_gen > Len(keys)

\* nca.rs 349 and 359: the check that precedes the indexing
KeyGenMissing(key_gen, keys) == key_gen >= Len(keys)

\* keys[key_gen]: Rust panics on an index out of bounds
InBounds(keys, i) == i + 1 \in DOMAIN keys

\* nca.rs 357
NeedsTitleKey(h) == h.rights_id # 0

(***************************************************************************)
(* nca.rs 343-390: the key derivation of NCA::new.  The result is          *)
(* "InvalidInput", "Panic" or "Ok" with the decrypted keys; the key area   *)
(* is decrypted in place, inside the header (nca.rs 387).                  *)
(***************************************************************************)
DeriveFail(kind, h) ==
    [result |-> kind, dec_key_area |-> KeyAreaEmpty, dec_title_key |-> NoneKey, header |-> h]

DeriveKeys(h, ks, tk, key_area_keys) ==
    LET key_gen == GetKeyGeneration(h) IN
    IF KeyGenMissing(key_gen, key_area_keys) THEN DeriveFail("InvalidInput", h)
    ELSE IF ~InBounds(key_area_keys, key_gen) THEN DeriveFail("Panic", h)
    ELSE
    LET key_area_key == key_area_keys[key_gen + 1] IN
    IF NeedsTitleKey(h)
    THEN IF tk.some
         THEN IF KeyGenMissing(key_gen, ks.title_key_encryption_keys)
              THEN DeriveFail("InvalidInput", h)
              ELSE IF ~InBounds(ks.title_key_encryption_keys, key_gen)
              THEN DeriveFail("Panic", h)
              ELSE [result        |-> "Ok",
                    dec_key_area  |-> KeyAreaEmpty,
                    dec_title_key |-> SomeKey(AesDecryptBlock(
                                         ks.title_key_encryption_keys[key_gen + 1], tk.key)),
                    header        |-> h]
         ELSE DeriveFail("InvalidInput", h)
    ELSE LET dec == EcbDecrypt(key_area_key, h.encrypted_key_area)
         IN  [result        |-> "Ok",
              dec_key_area  |-> KeyAreaFromSlice(dec),
              dec_title_key |-> NoneKey,
              header        |-> [h EXCEPT !.encrypted_key_area = dec]]

(***************************************************************************)
(* nca.rs 392-403: the headers of the sections that are present.           *)
(***************************************************************************)
\* mutant: absent sections are not elided
SectionPresentAlways(fs_entry) == TRUE

SectionPresent(fs_entry) == fs_entry.start_offset * MEDIA_UNIT_SIZE > 0

RECURSIVE CollectFsHeaders(_, _, _)
CollectFsHeaders(entries, hdrs, i) ==
    IF i >= MAX_FILESYSTEM_COUNT THEN <<>>
    ELSE (IF SectionPresent(entries[i]) THEN <<hdrs[i]>> ELSE <<>>)
         \o CollectFsHeaders(entries, hdrs, i + 1)

(***************************************************************************)
(* State of the PFS0 reader (pfs0.rs), declared here so that the NCA       *)
(* operations can leave it unchanged.                                      *)
(***************************************************************************)
VARIABLES
    pfsSrcLen,      \* length in bytes of the source behind PFS0.reader
    pfsPos,         \* cursor of that shared source
    pfsHeader,      \* PFS0.header
    file_entries,   \* PFS0.file_entries
    overflowChecks, \* the build: TRUE when integer overflow panics, FALSE when it wraps
    call,           \* per handle, the read_file call in progress
    lastRead,       \* the last read_file call that returned (or panicked)
    readLog         \* history: the last two reads that returned Ok before lastRead

pfsVars == <<pfsSrcLen, pfsPos, pfsHeader, file_entries, overflowChecks, call, lastRead, readLog>>

(***************************************************************************)
(* State of a PFS0FileReader (pfs0.rs 26-78) handed out by                 *)
(* PFS0::get_file_reader; it shares the source (pfsPos) with its PFS0.     *)
(***************************************************************************)
VARIABLES
    fileReader,     \* the PFS0FileReader: made, read_offset, file_size, the file it was asked for
    lastFr,         \* the last get_file_reader / seek / read call on it
    frCursor        \* history: the offset in the reader's window its next read is due at

frVars == <<fileReader, lastFr, frCursor>>

(***************************************************************************)
(* State of a RomFs (romfs.rs) and of the source behind it.                *)
(***************************************************************************)
VARIABLES
    romImg,         \* the tables RomFs::new loaded: header, hash tables, meta tables
    romSrcLen,      \* length in bytes of the source behind the RomFs
    romPos,         \* cursor of that source
    lastRom,        \* the last exists_file / get_file_size / read_file call
    existsTrue      \* history: the paths exists_file has returned true for

romVars == <<romImg, romSrcLen, romPos, lastRom, existsTrue>>

vars == <<ncaVars, pfsVars, frVars, romVars>>

(***************************************************************************)
(* NCA::new, nca.rs 306-412.  The source lock is taken twice, once per     *)
(* read_exact (nca.rs 322 and 340): the call is two steps.                 *)
(***************************************************************************)
NewFails(kind) ==
    /\ ncaPc' = "failed"
    /\ newResult' = kind
    /\ UNCHANGED <<header, dec_key_area, dec_title_key, fs_headers>>

\* nca.rs 311-330
NewReadHeader(ks, tk) ==
    /\ ncaPc = "start"
    /\ keyset' = ks
    /\ title_key' = tk
    /\ IF ~CanReadExact(ncaSrc, ncaPos, NCA_HEADER_SIZE)
       THEN /\ ncaPos' = ncaSrc.len
            /\ hdrRead' = hdrRead
            /\ NewFails("UnexpectedEof")
       ELSE /\ ncaPos' = ncaPos + NCA_HEADER_SIZE
            /\ hdrRead' = HeaderAt(ncaSrc, ncaPos)
            /\ IF ~MagicOk(hdrRead')
               THEN NewFails("InvalidInput")
               ELSE /\ ncaPc' = "header_read"
                    /\ UNCHANGED <<newResult, header, dec_key_area, dec_title_key, fs_headers>>
    /\ UNCHANGED <<ncaSrc, rawFsHeaders, lastOpen, okOpens, pfsVars, frVars, romVars>>

\* nca.rs 332-411
NewReadFsHeaders ==
    /\ ncaPc = "header_read"
    /\ IF ~CanReadExact(ncaSrc, ncaPos, MAX_FILESYSTEM_COUNT * FS_HEADER_SIZE)
       THEN /\ ncaPos' = ncaSrc.len
            /\ rawFsHeaders' = rawFsHeaders
            /\ NewFails("UnexpectedEof")
       ELSE /\ ncaPos' = ncaPos + MAX_FILESYSTEM_COUNT * FS_HEADER_SIZE
            /\ rawFsHeaders' = FsHeadersAt(ncaSrc, ncaPos)
            /\ \E kind \in SelectedKinds(hdrRead) :
                 LET d == DeriveKeys(hdrRead, keyset, title_key, KeyAreaKeys(keyset, kind)) IN
                 IF d.result = "Ok"
                 THEN /\ ncaPc' = "ready"
                      /\ newResult' = "Ok"
                      /\ header' = d.header
                      /\ dec_key_area' = d.dec_key_area
                      /\ dec_title_key' = d.dec_title_key
                      /\ fs_headers' = CollectFsHeaders(d.header.fs_entries, rawFsHeaders', 0)
                 ELSE IF d.result = "Panic"
                 THEN /\ ncaPc' = "aborted"
                      /\ newResult' = "Panic"
                      /\ UNCHANGED <<header, dec_key_area, dec_title_key, fs_headers>>
                 ELSE NewFails(d.result)
    /\ UNCHANGED <<ncaSrc, keyset, title_key, hdrRead, lastOpen, okOpens, pfsVars, frVars, romVars>>

\* another holder of the Shared source (a clone of the reader handed to
\* NCA::new) seeks it while NCA::new is between its two reads: the lock is
\* free from the end of nca.rs 322 to nca.rs 340
OtherHolderSeek(p) ==
    /\ ncaPc = "header_read"
    /\ ncaPos' = p
    /\ UNCHANGED <<ncaSrc, ncaPc, newResult, keyset, title_key, hdrRead, rawFsHeaders,
                   header, dec_key_area, dec_title_key, fs_headers, lastOpen, okOpens,
                   pfsVars, frVars, romVars>>

\* the positions the cursor of the shared source is drawn from
SharedCursors == {0, MEDIA_UNIT_SIZE, NCA_HEADER_SIZE}

(***************************************************************************)
(* The accessors of a constructed NCA.                                     *)
(***************************************************************************)
\* nca.rs 415-417
GetFilesystemCount == Len(fs_headers)

\* nca.rs 419-425
GetAesCtrDecryptKey ==
    IF dec_title_key.some THEN dec_title_key.key ELSE dec_key_area.aes_ctr_key

\* nca.rs 429: the section entry get_fs_offset pairs with active index idx
FsEntryFor(idx) == header.fs_entries[idx]

\* nca.rs 427-436; todo!() panics
GetFsOffset(idx) ==
    LET fs_header == fs_headers[idx + 1]
        fs_entry  == FsEntryFor(idx)
    IN  IF fs_header.generation # 0
        THEN [panic |-> TRUE, value |-> 0]
        ELSE [panic |-> FALSE, value |-> fs_entry.start_offset * MEDIA_UNIT_SIZE]

\* PFS0::new (pfs0.rs 88-110) and RomFs::new over the section's reader: the
\* outcome depends on the bytes of the region, which the model leaves open
InnerOutcomes(op) ==
    IF op = "pfs0" THEN {"Ok", "InvalidInput", "UnexpectedEof"} ELSE {"Ok", "UnexpectedEof"}

\* the offset inside the section the inner filesystem starts at (nca.rs 466-467, 505-515)
InnerOffset(op, fs_header) ==
    IF op = "pfs0" THEN fs_header.pfs0_offset ELSE fs_header.ivfc_offset

\* mutant: open_romfs_filesystem carries the type test of open_pfs0_filesystem
WantedTypeCopied(op) == "PartitionFs"

\* nca.rs 452 and 491
WantedType(op) == IF op = "pfs0" THEN "PartitionFs" ELSE "RomFs"

\* the header PFS0::new (pfs0.rs 89) and RomFs::new read first
InnerHeaderSize(op) == IF op = "pfs0" THEN PFS0_HEADER_SIZE ELSE ROMFS_HEADER_SIZE

\* Aes128CtrReader::read (util.rs, after the specification's 4.B) of n bytes
\* at logical position p of a region at base: the shared source is sought to
\* base + p aligned down to 16 and whole 16-byte blocks are read; this is the
\* source's cursor afterwards
CtrReadEnd(base, p, n) ==
    LET A == base + p
    IN  (A \div 16) * 16 + (((A % 16) + n + 15) \div 16) * 16

\* the source's cursor when PFS0::new / RomFs::new return: after the header
\* when they fail, after the tables that follow it when they succeed
InnerParseEnd(op, base, inner) ==
    IF inner = "Ok"
    THEN CtrReadEnd(base, InnerHeaderSize(op), INNER_TABLES_SIZE)
    ELSE CtrReadEnd(base, 0, InnerHeaderSize(op))

OpenDone(op, idx, result, fs_start, rd) ==
    /\ lastOpen' = [op |-> op, idx |-> idx, result |-> result, fs_start |-> fs_start, reader |-> rd]
    /\ ncaPc' = IF result = "Panic" THEN "aborted" ELSE ncaPc
    /\ okOpens' = IF result = "Ok" THEN okOpens \cup {<<op, idx>>} ELSE okOpens
    /\ ncaPos' = IF rd.made THEN InnerParseEnd(op, rd.base_offset, result) ELSE ncaPos

\* nca.rs 443-480 (op = "pfs0") and 482-528 (op = "romfs")
OpenFilesystem(op, idx) ==
    /\ ncaPc = "ready"
    /\ IF idx >= Len(fs_headers)
       THEN OpenDone(op, idx, "InvalidInput", -1, NoOpen.reader)
       ELSE LET fs_header == fs_headers[idx + 1] IN
            IF fs_header.fs_type # WantedType(op)
            THEN OpenDone(op, idx, "InvalidInput", -1, NoOpen.reader)
            ELSE LET off == GetFsOffset(idx) IN
                 IF off.panic
                 THEN OpenDone(op, idx, "Panic", -1, NoOpen.reader)
                 ELSE IF fs_header.encryption_type = "AesCtr"
                 THEN \E inner \in InnerOutcomes(op) :
                        OpenDone(op, idx, inner, off.value,
                                 [made        |-> TRUE,
                                  base_offset |-> off.value + InnerOffset(op, fs_header),
                                  ctr         |-> fs_header.ctr,
                                  key         |-> GetAesCtrDecryptKey])
                 ELSE OpenDone(op, idx, "Panic", off.value, NoOpen.reader)
    /\ UNCHANGED <<ncaSrc, newResult, keyset, title_key, hdrRead, rawFsHeaders,
                   header, dec_key_area, dec_title_key, fs_headers, pfsVars, frVars, romVars>>

open_pfs0_filesystem(idx) == OpenFilesystem("pfs0", idx)

open_romfs_filesystem(idx) == OpenFilesystem("romfs", idx)

(***************************************************************************)
(* PFS0 (pfs0.rs).                                                         *)
(***************************************************************************)
\* usize is 64 bits wide in the code; the model keeps the wrap-around at a
\* narrower width
UsizeBits == 8
UsizeMod == 2 ^ UsizeBits

\* largest FileEntry.size of an image, and largest buffer of a read
MaxFileSize == 2

Handles == {1, 2}

Min(a, b) == IF a < b THEN a ELSE b

\* the byte the source holds at address a: every address holds another value
SrcByte(a) == a

(***************************************************************************)
(* The images a PFS0 is opened on: one or two files laid out back to back. *)
(***************************************************************************)
MakeImage(sizes) ==
    [header  |-> [file_count |-> Len(sizes), string_table_size |-> 8],
     entries |-> [k \in 1..Len(sizes) |->
                    [offset |-> IF k = 1 THEN 0 ELSE sizes[1], size |-> sizes[k]]]]

PfsImages == {MakeImage(<<MaxFileSize>>)} \cup { MakeImage(<<s0, 1>>) : s0 \in 0..MaxFileSize }

\* pfs0.rs 151-153 / 170-172
BaseOffset(hdr) ==
    (PFS0_HEADER_SIZE + FILE_ENTRY_SIZE * hdr.file_count + hdr.string_table_size) % UsizeMod

\* the byte after the last file of an image
ImageEnd(img) ==
    LET last == img.entries[Len(img.entries)]
    IN  BaseOffset(img.header) + last.offset + last.size

IdleCall == [pc |-> "idle", idx |-> 0, offset |-> 0, n |-> 0, read_offset |-> 0]

NoRead ==
    [h |-> 0, idx |-> 0, offset |-> 0, n |-> 0, result |-> "none",
     read_offset |-> 0, at |-> 0, data |-> <<>>]

(***************************************************************************)
(* usize arithmetic: an overflowing sum panics in a build with overflow    *)
(* checks and wraps in a build without.                                    *)
(***************************************************************************)
UsizeAdd(a, b) == [overflow |-> a + b >= UsizeMod, value |-> (a + b) % UsizeMod]

\* pfs0.rs 142
IndexValid(idx) == idx < Len(file_entries)

\* pfs0.rs 147: "pass", "UnexpectedEof" or "Panic"
BoundsCheck(entry, offset, n) ==
    LET sum == UsizeAdd(offset, n) IN
    IF sum.overflow /\ overflowChecks THEN "Panic"
    ELSE IF sum.value > entry.size THEN "UnexpectedEof"
    ELSE "pass"

\* pfs0.rs 151-155
ReadOffset(entry, offset) ==
    LET base_read_offset == UsizeAdd(BaseOffset(pfsHeader), entry.offset)
        read_offset      == UsizeAdd(base_read_offset.value, offset)
    IN  [overflow |-> base_read_offset.overflow \/ read_offset.overflow,
         value    |-> read_offset.value]

\* mutant: the call reads on from wherever the cursor is
SeekSkipped(cur, o) == cur

\* pfs0.rs 157-160: the cursor after seek(SeekFrom::Start(o)) from cursor cur
SeekStart(cur, o) == o

(***************************************************************************)
(* The shared source's read(buf): it delivers the bytes from the cursor    *)
(* on, as many as the buffer takes and the source has, and advances the    *)
(* cursor.                                                                 *)
(***************************************************************************)

SourceReadCount(pos, n) == IF pos >= pfsSrcLen THEN 0 ELSE Min(n, pfsSrcLen - pos)

SourceReadData(pos, n) == [j \in 1..SourceReadCount(pos, n) |-> SrcByte(pos + j - 1)]

(***************************************************************************)
(* PFS0::read_file, pfs0.rs 141-162.                                       *)
(***************************************************************************)
ReadRecord(h, idx, offset, n, result, ro, at, data) ==
    [h |-> h, idx |-> idx, offset |-> offset, n |-> n, result |-> result,
     read_offset |-> ro, at |-> at, data |-> data]

\* pfs0.rs 142-155: what the call does before it touches the source
ReadFilePlan(idx, offset, n) ==
    IF ~IndexValid(idx) THEN [result |-> "InvalidInput", read_offset |-> 0]
    ELSE LET entry == file_entries[idx + 1]
             chk   == BoundsCheck(entry, offset, n)
             ro    == ReadOffset(entry, offset)
         IN  IF chk # "pass" THEN [result |-> chk, read_offset |-> 0]
             ELSE IF ro.overflow /\ overflowChecks THEN [result |-> "Panic", read_offset |-> 0]
             ELSE [result |-> "pass", read_offset |-> ro.value]

\* history: the reads that returned Ok, the last two before lastRead
LogAfter(log, last) ==
    IF last.result # "Ok" THEN log
    ELSE LET e   == [idx |-> last.idx, offset |-> last.offset, n |-> last.n, data |-> last.data]
             all == Append(log, e)
         IN  IF Len(all) > 2 THEN Tail(all) ELSE all

\* one call on a handle no other holder of the source runs beside: the
\* seek (pfs0.rs 157-160) and the read (pfs0.rs 161) follow each other
read_file(h, idx, offset, n) ==
    /\ call[h].pc = "idle"
    /\ LET plan == ReadFilePlan(idx, offset, n) IN
       IF plan.result # "pass"
       THEN /\ lastRead' = ReadRecord(h, idx, offset, n, plan.result, 0, 0, <<>>)
            /\ call' = IF plan.result = "Panic"
                       THEN [call EXCEPT ![h] = [IdleCall EXCEPT !.pc = "aborted"]]
                       ELSE call
            /\ pfsPos' = pfsPos
       ELSE LET at == SeekStart(pfsPos, plan.read_offset) IN
            /\ lastRead' = ReadRecord(h, idx, offset, n, "Ok", plan.read_offset, at,
                                      SourceReadData(at, n))
            /\ pfsPos' = at + SourceReadCount(at, n)
            /\ call' = call
    /\ readLog' = LogAfter(readLog, lastRead)
    /\ UNCHANGED <<pfsSrcLen, pfsHeader, file_entries, overflowChecks, ncaVars, frVars, romVars>>

\* the same call beside other holders of the source, first half: the checks
\* and the statement that locks, seeks and unlocks (pfs0.rs 142-160)
ReadFileSeek(h, idx, offset, n) ==
    /\ call[h].pc = "idle"
    /\ LET plan == ReadFilePlan(idx, offset, n) IN
       IF plan.result # "pass"
       THEN /\ lastRead' = ReadRecord(h, idx, offset, n, plan.result, 0, 0, <<>>)
            /\ call' = IF plan.result = "Panic"
                       THEN [call EXCEPT ![h] = [IdleCall EXCEPT !.pc = "aborted"]]
                       ELSE call
            /\ pfsPos' = pfsPos
       ELSE /\ pfsPos' = SeekStart(pfsPos, plan.read_offset)
            /\ call' = [call EXCEPT ![h] = [pc |-> "sought", idx |-> idx, offset |-> offset,
                                            n |-> n, read_offset |-> plan.read_offset]]
            /\ lastRead' = lastRead
    /\ UNCHANGED <<pfsSrcLen, pfsHeader, file_entries, overflowChecks, readLog, ncaVars, frVars, romVars>>

\* second half: the statement that locks, reads and unlocks (pfs0.rs 161)
ReadFileRead(h) ==
    /\ call[h].pc = "sought"
    /\ lastRead' = ReadRecord(h, call[h].idx, call[h].offset, call[h].n, "Ok",
                              call[h].read_offset, pfsPos, SourceReadData(pfsPos, call[h].n))
    /\ pfsPos' = pfsPos + SourceReadCount(pfsPos, call[h].n)
    /\ call' = [call EXCEPT ![h] = IdleCall]
    /\ UNCHANGED <<pfsSrcLen, pfsHeader, file_entries, overflowChecks, readLog, ncaVars, frVars, romVars>>

\* the arguments the calls are drawn from
FileIndexes == 0..Len(file_entries)
ReadOffsets == (0..MaxFileSize) \cup {UsizeMod - 1}
BufLens == 0..MaxFileSize

(***************************************************************************)
(* PFS0FileReader (pfs0.rs 26-78) and PFS0::get_file_reader (164-183).     *)
(***************************************************************************)
\* no reader has been handed out
NoReader == [made |-> FALSE, idx |-> 0, read_offset |-> 0, file_size |-> 0]

\* no call on the reader yet
NoFrCall == [op |-> "none", kind |-> "none", arg |-> 0, result |-> "none", before |-> 0,
             due |-> 0, data |-> <<>>]

FrCall(op, kind, arg, result, before, due, data) ==
    [op |-> op, kind |-> kind, arg |-> arg, result |-> result, before |-> before,
     due |-> due, data |-> data]

\* images whose single file lies so far into the source that
\* base_offset + entry.offset + entry.size reaches half the range of usize
\* (entry.offset is a u64 read from the image, pfs0.rs 20 and 97)
MakeFarImage(size, k) ==
    [header  |-> [file_count |-> 1, string_table_size |-> 8],
     entries |-> << [offset |-> (UsizeMod \div 2) + k - size
                                  - (PFS0_HEADER_SIZE + FILE_ENTRY_SIZE + 8),
                     size   |-> size] >>]

FarImages == { MakeFarImage(MaxFileSize, k) : k \in 0..1 } \cup { MakeFarImage(0, 0) }

\* i64: the two's complement reading of a u64, and back
ToI64(x) == IF x >= UsizeMod \div 2 THEN x - UsizeMod ELSE x

ToU64(x) == x % UsizeMod

\* i64 +: overflows outside [-2^(w-1), 2^(w-1))
I64Add(a, b) ==
    [overflow |-> a + b >= UsizeMod \div 2 \/ a + b < -(UsizeMod \div 2),
     value    |-> ToI64((a + b) % UsizeMod)]

SeekResult(result, pos) == [result |-> result, pos |-> pos]

\* pfs0.rs 64 and 71: the window test of SeekFrom::Current and SeekFrom::End
OutsideWindow(rd, new_offset, limit) == new_offset > limit \/ new_offset < rd.read_offset

\* pfs0.rs 50: the test of SeekFrom::Start
StartPastEnd(new_offset, file_size) == new_offset > file_size

(***************************************************************************)
(* PFS0FileReader::seek, pfs0.rs 45-78, on reader rd with the source's     *)
(* cursor at cur: the result and the source's cursor afterwards.  An       *)
(* overflowing sum panics in a build with overflow checks and wraps in a   *)
(* build without.  The source accepts SeekFrom::Start of any offset and    *)
(* refuses a SeekFrom::End that lands before its first byte.               *)
(***************************************************************************)
FrSeekResult(rd, cur, kind, o) ==
    IF kind = "Start"
    THEN LET new_offset == UsizeAdd(rd.read_offset, o) IN
         IF new_offset.overflow /\ overflowChecks THEN SeekResult("Panic", cur)
         ELSE IF StartPastEnd(new_offset.value, rd.file_size) THEN SeekResult("InvalidInput", cur)
         ELSE SeekResult("Ok", SeekStart(cur, new_offset.value))
    ELSE IF kind = "Current"
    THEN LET sum   == I64Add(ToI64(cur), o)
             limit == UsizeAdd(rd.read_offset, rd.file_size)
         IN  IF (sum.overflow \/ limit.overflow) /\ overflowChecks THEN SeekResult("Panic", cur)
             ELSE IF OutsideWindow(rd, ToU64(sum.value), limit.value)
             THEN SeekResult("InvalidInput", cur)
             ELSE SeekResult("Ok", SeekStart(cur, ToU64(sum.value)))
    ELSE LET end   == I64Add(ToI64(rd.read_offset), ToI64(rd.file_size))
             sum   == I64Add(end.value, o)
             limit == UsizeAdd(rd.read_offset, rd.file_size)
         IN  IF (end.overflow \/ sum.overflow \/ limit.overflow) /\ overflowChecks
             THEN SeekResult("Panic", cur)
             ELSE IF OutsideWindow(rd, ToU64(sum.value), limit.value)
             THEN SeekResult("InvalidInput", cur)
             ELSE IF pfsSrcLen + o < 0 THEN SeekResult("InvalidInput", cur)
             ELSE SeekResult("Ok", pfsSrcLen + o)

\* the offset in rd's window that source position pos is, -1 when outside
WindowOffset(rd, pos) ==
    IF rd.read_offset <= pos /\ pos <= rd.read_offset + rd.file_size
    THEN pos - rd.read_offset
    ELSE -1

\* pfs0.rs 174
ReaderStart(base_read_offset, size) == UsizeAdd(base_read_offset, size)

(***************************************************************************)
(* PFS0::get_file_reader, pfs0.rs 164-183.                                 *)
(***************************************************************************)
get_file_reader(idx) ==
    /\ lastFr.result # "Panic"
    /\ IF ~IndexValid(idx)
       THEN /\ lastFr' = FrCall("get_file_reader", "none", idx, "InvalidInput", pfsPos, 0, <<>>)
            /\ UNCHANGED <<fileReader, pfsPos, frCursor>>
       ELSE LET entry            == file_entries[idx + 1]
                base_read_offset == UsizeAdd(BaseOffset(pfsHeader), entry.offset)
                read_offset      == ReaderStart(base_read_offset.value, entry.size)
                reader           == [made |-> TRUE, idx |-> idx,
                                     read_offset |-> read_offset.value, file_size |-> entry.size]
                sought           == FrSeekResult(reader, pfsPos, "Start", read_offset.value)
            IN  IF (base_read_offset.overflow \/ read_offset.overflow) /\ overflowChecks
                THEN /\ lastFr' = FrCall("get_file_reader", "none", idx, "Panic", pfsPos, 0, <<>>)
                     /\ UNCHANGED <<fileReader, pfsPos, frCursor>>
                ELSE /\ lastFr' = FrCall("get_file_reader", "none", idx, sought.result, pfsPos,
                                         0, <<>>)
                     /\ pfsPos' = sought.pos
                     /\ fileReader' = IF sought.result = "Ok" THEN reader ELSE fileReader
                     /\ frCursor' = IF sought.result = "Ok" THEN 0 ELSE frCursor
    /\ UNCHANGED <<pfsSrcLen, pfsHeader, file_entries, overflowChecks, call, lastRead, readLog,
                   ncaVars, romVars>>

\* a seek call on the reader get_file_reader returned
FrSeek(kind, o) ==
    /\ fileReader.made
    /\ lastFr.result # "Panic"
    /\ LET r == FrSeekResult(fileReader, pfsPos, kind, o) IN
       /\ lastFr' = FrCall("seek", kind, o, r.result, pfsPos, frCursor, <<>>)
       /\ pfsPos' = r.pos
       /\ frCursor' = IF r.result = "Ok" THEN WindowOffset(fileReader, r.pos) ELSE frCursor
    /\ UNCHANGED <<fileReader, pfsSrcLen, pfsHeader, file_entries, overflowChecks, call, lastRead,
                   readLog, ncaVars, romVars>>

\* pfs0.rs 37-40: where read seeks to, whatever was read or sought before
ReadStart(rd) == rd.read_offset

\* PFS0FileReader::read, pfs0.rs 35-43, with |buf| = n; the history variable
\* stops the calls once more than the file has been returned
FrRead(n) ==
    /\ fileReader.made
    /\ lastFr.result # "Panic"
    /\ frCursor <= fileReader.file_size
    /\ LET at   == SeekStart(pfsPos, ReadStart(fileReader))
           data == SourceReadData(at, n)
       IN  /\ lastFr' = FrCall("read", "none", n, "Ok", pfsPos, frCursor, data)
           /\ pfsPos' = at + Len(data)
           /\ frCursor' = IF frCursor < 0 THEN frCursor ELSE frCursor + Len(data)
    /\ UNCHANGED <<fileReader, pfsSrcLen, pfsHeader, file_entries, overflowChecks, call, lastRead,
                   readLog, ncaVars, romVars>>

\* the arguments the seek calls are drawn from
SeekKinds == {"Start", "Current", "End"}
SeekOffsets(kind) ==
    IF kind = "Start" THEN 0..(MaxFileSize + 1) ELSE (-(MaxFileSize + 1))..1

(***************************************************************************)
(* RomFs (romfs.rs), after the specification's sections 3 and 4.E.  A name *)
(* and a path are sequences of bytes; a meta table is a function from the  *)
(* byte offset of an entry to the entry.  Of an entry the model keeps the  *)
(* fields the path lookup and the reads use (the sibling and child links   *)
(* serve the directory iterator only).                                     *)
(***************************************************************************)
\* 0xFFFFFFFF, the terminator of a hash chain and of an empty bucket
ROMFS_NONE == -1

\* the seed of the name hash
ROMFS_HASH_SEED == 123456789

\* the byte '/'
SLASH == 47

\* a 32-bit word is kept as its two 16-bit halves
Word(n) == [hi |-> n \div 65536, lo |-> n % 65536]

\* bitwise exclusive or of two naturals
RECURSIVE Xor(_, _)
Xor(a, b) ==
    IF a = 0 THEN b
    ELSE IF b = 0 THEN a
    ELSE 2 * Xor(a \div 2, b \div 2) + ((a + b) % 2)

XorWord(x, y) == [hi |-> Xor(x.hi, y.hi), lo |-> Xor(x.lo, y.lo)]

\* (h >> 5) | (h << 27)
RotateRight5(h) ==
    [hi |-> (h.hi \div 32) + (h.lo % 32) * 2048,
     lo |-> (h.lo \div 32) + (h.hi % 32) * 2048]

RECURSIVE HashBytes(_, _)
HashBytes(h, name) ==
    IF name = <<>> THEN h
    ELSE HashBytes(XorWord(RotateRight5(h), Word(Head(name))), Tail(name))

\* h % count
WordMod(h, count) == ((h.hi % count) * (65536 % count) + h.lo) % count

\* the bucket of name under the directory at meta offset parent
HashBucket(parent, name, count) ==
    WordMod(HashBytes(XorWord(Word(parent), Word(ROMFS_HASH_SEED)), name), count)

Pad4(n) == ((n + 3) \div 4) * 4

\* size of a directory entry and of a file entry in its meta table
DirEntrySize(name) == 24 + Pad4(Len(name))
FileEntrySize(name) == 32 + Pad4(Len(name))

(***************************************************************************)
(* A well-formed image, as a RomFS builder lays it out: dirs[1] is the     *)
(* root, dirs[k].parent and files[k].dir are indices into dirs; the chain  *)
(* of a bucket links its entries by ascending offset; file data lies back  *)
(* to back behind data_offset.                                             *)
(***************************************************************************)
RECURSIVE DirOffset(_, _)
DirOffset(dirs, k) ==
    IF k = 1 THEN 0 ELSE DirOffset(dirs, k - 1) + DirEntrySize(dirs[k - 1].name)

RECURSIVE FileOffset(_, _)
FileOffset(files, k) ==
    IF k = 1 THEN 0 ELSE FileOffset(files, k - 1) + FileEntrySize(files[k - 1].name)

RECURSIVE FileDataOffset(_, _)
FileDataOffset(files, k) ==
    IF k = 1 THEN 0 ELSE FileDataOffset(files, k - 1) + files[k - 1].size

\* the smallest member of a non-empty set of indices
MinOf(S) == CHOOSE x \in S : \A y \in S : x <= y

MakeRomImage(dirs, files, dcount, fcount, data_offset) ==
    LET dparent(k) == DirOffset(dirs, dirs[k].parent)
        fparent(k) == DirOffset(dirs, files[k].dir)
        dbucket(k) == HashBucket(dparent(k), dirs[k].name, dcount)
        fbucket(k) == HashBucket(fparent(k), files[k].name, fcount)
        dnext(k)   == {j \in DOMAIN dirs : j > k /\ dbucket(j) = dbucket(k)}
        fnext(k)   == {j \in DOMAIN files : j > k /\ fbucket(j) = fbucket(k)}
        dhead(b)   == {j \in DOMAIN dirs : dbucket(j) = b}
        fhead(b)   == {j \in DOMAIN files : fbucket(j) = b}
    IN  [data_offset     |-> data_offset,
         dir_hash_table  |-> [b \in 1..dcount |->
                                IF dhead(b - 1) = {} THEN ROMFS_NONE
                                ELSE DirOffset(dirs, MinOf(dhead(b - 1)))],
         file_hash_table |-> [b \in 1..fcount |->
                                IF fhead(b - 1) = {} THEN ROMFS_NONE
                                ELSE FileOffset(files, MinOf(fhead(b - 1)))],
         dir_meta        |-> [o \in {DirOffset(dirs, k) : k \in DOMAIN dirs} |->
                                LET k == CHOOSE j \in DOMAIN dirs : DirOffset(dirs, j) = o
                                IN  [parent_dir_offset    |-> dparent(k),
                                     next_hash_dir_offset |-> IF dnext(k) = {} THEN ROMFS_NONE
                                                              ELSE DirOffset(dirs, MinOf(dnext(k))),
                                     name                 |-> dirs[k].name]],
         file_meta       |-> [o \in {FileOffset(files, k) : k \in DOMAIN files} |->
                                LET k == CHOOSE j \in DOMAIN files : FileOffset(files, j) = o
                                IN  [parent_dir_offset     |-> fparent(k),
                                     data_offset           |-> FileDataOffset(files, k),
                                     data_size             |-> files[k].size,
                                     next_hash_file_offset |-> IF fnext(k) = {} THEN ROMFS_NONE
                                                               ELSE FileOffset(files, MinOf(fnext(k))),
                                     name                  |-> files[k].name]]]

\* the tree of the test image (lib.rs 71-77): a.txt, qwe/b.txt, qwe2/a.txt,
\* with one-letter names: a, q/b, r/a, and q/b empty
RomDirs == << [parent |-> 1, name |-> <<>>],
              [parent |-> 1, name |-> <<113>>],
              [parent |-> 1, name |-> <<114>>] >>

RomFiles(s1, s3) == << [dir |-> 1, name |-> <<97>>, size |-> s1],
                       [dir |-> 2, name |-> <<98>>, size |-> 0],
                       [dir |-> 3, name |-> <<97>>, size |-> s3] >>

\* where the file data begins in the images of the model
ROM_DATA_OFFSET == 512

\* hash-table sizes and file sizes of the images a RomFs is opened on
RomImages ==
    { MakeRomImage(RomDirs, RomFiles(MaxFileSize, 1), c[1], c[2], ROM_DATA_OFFSET) :
        c \in {<<1, 1>>, <<2, 3>>} }

\* the byte after the last file of an image
RomImageEnd(img) ==
    LET last == MinOf({o \in DOMAIN img.file_meta :
                         \A o2 \in DOMAIN img.file_meta : o2 <= o})
    IN  img.data_offset + img.file_meta[last].data_offset + img.file_meta[last].data_size

\* the paths the calls are drawn from: a, r/a, /q//b/ (which exist), q/a, b,
\* q (a directory), a/b and the empty path (which do not)
RomPaths ==
    { <<97>>, <<114, SLASH, 97>>, <<SLASH, 113, SLASH, SLASH, 98, SLASH>>,
      <<113, SLASH, 97>>, <<98>>, <<113>>, <<97, SLASH, 98>>, <<>> }

(***************************************************************************)
(* Path resolution (specification 4.E).                                    *)
(***************************************************************************)
\* the components of a path; empty components are skipped
RECURSIVE SplitPath(_, _)
SplitPath(path, cur) ==
    IF path = <<>> THEN (IF cur = <<>> THEN <<>> ELSE <<cur>>)
    ELSE IF Head(path) = SLASH
         THEN (IF cur = <<>> THEN <<>> ELSE <<cur>>) \o SplitPath(Tail(path), <<>>)
         ELSE SplitPath(Tail(path), Append(cur, Head(path)))

\* follow next_hash_dir_offset from cand to the entry of that parent and name
RECURSIVE FindDirInChain(_, _, _, _)
FindDirInChain(img, cand, parent, name) ==
    IF cand = ROMFS_NONE THEN ROMFS_NONE
    ELSE IF img.dir_meta[cand].parent_dir_offset = parent /\ img.dir_meta[cand].name = name
    THEN cand
    ELSE FindDirInChain(img, img.dir_meta[cand].next_hash_dir_offset, parent, name)

RECURSIVE FindFileInChain(_, _, _, _)
FindFileInChain(img, cand, parent, name) ==
    IF cand = ROMFS_NONE THEN ROMFS_NONE
    ELSE IF img.file_meta[cand].parent_dir_offset = parent /\ img.file_meta[cand].name = name
    THEN cand
    ELSE FindFileInChain(img, img.file_meta[cand].next_hash_file_offset, parent, name)

FindDir(img, cur, name) ==
    FindDirInChain(img, img.dir_hash_table[HashBucket(cur, name, Len(img.dir_hash_table)) + 1],
                   cur, name)

FindFile(img, cur, name) ==
    FindFileInChain(img, img.file_hash_table[HashBucket(cur, name, Len(img.file_hash_table)) + 1],
                    cur, name)

\* every component but the last is a directory, the last is a file
RECURSIVE WalkPath(_, _, _)
WalkPath(img, comps, cur) ==
    IF comps = <<>> THEN ROMFS_NONE
    ELSE IF Len(comps) = 1 THEN FindFile(img, cur, comps[1])
    ELSE LET d == FindDir(img, cur, Head(comps))
         IN  IF d = ROMFS_NONE THEN ROMFS_NONE ELSE WalkPath(img, Tail(comps), d)

\* the meta offset of the file entry of path, or ROMFS_NONE
ResolveFile(img, path) == WalkPath(img, SplitPath(path, <<>>), 0)

(***************************************************************************)
(* The operations of a RomFs.                                              *)
(***************************************************************************)
NoRomCall ==
    [op |-> "none", path |-> <<>>, offset |-> 0, n |-> 0, result |-> "none", value |-> 0,
     at |-> 0, data |-> <<>>]

RomCall(op, path, offset, n, result, value, at, data) ==
    [op |-> op, path |-> path, offset |-> offset, n |-> n, result |-> result, value |-> value,
     at |-> at, data |-> data]

\* the bytes the source behind the RomFs delivers at pos into a buffer of n
RomSourceRead(pos, n) ==
    [j \in 1..(IF pos >= romSrcLen THEN 0 ELSE Min(n, romSrcLen - pos)) |-> SrcByte(pos + j - 1)]

\* exists_file(path)
exists_file(path) ==
    LET hit == ResolveFile(romImg, path) # ROMFS_NONE IN
    /\ lastRom' = RomCall("exists_file", path, 0, 0, "Ok", IF hit THEN 1 ELSE 0, 0, <<>>)
    /\ existsTrue' = IF hit THEN existsTrue \cup {path} ELSE existsTrue
    /\ UNCHANGED <<romImg, romSrcLen, romPos, ncaVars, pfsVars, frVars>>

\* what get_file_size(path) returns
FileSizeResult(img, path) ==
    LET f == ResolveFile(img, path) IN
    IF f = ROMFS_NONE THEN [result |-> "Unsupported", value |-> 0]
    ELSE [result |-> "Ok", value |-> img.file_meta[f].data_size]

\* get_file_size(path)
get_file_size(path) ==
    LET r == FileSizeResult(romImg, path) IN
    /\ lastRom' = RomCall("get_file_size", path, 0, 0, r.result, r.value, 0, <<>>)
    /\ UNCHANGED <<romImg, romSrcLen, romPos, existsTrue, ncaVars, pfsVars, frVars>>

\* mutant: a read that ends at the end of the file is refused
RomRangeOkExclusive(offset, n, size) == offset + n < size

\* the validation of read_file: offset + |buf| <= data_size
RomRangeOk(offset, n, size) == offset + n <= size

\* RomFs::read_file(path, offset, buf) with |buf| = n
RomFsReadFile(path, offset, n) ==
    LET f == ResolveFile(romImg, path) IN
    /\ IF f = ROMFS_NONE
       THEN /\ lastRom' = RomCall("read_file", path, offset, n, "Unsupported", 0, 0, <<>>)
            /\ romPos' = romPos
       ELSE IF ~RomRangeOk(offset, n, romImg.file_meta[f].data_size)
       THEN /\ lastRom' = RomCall("read_file", path, offset, n, "OutOfRange", 0, 0, <<>>)
            /\ romPos' = romPos
       ELSE LET at   == romImg.data_offset + romImg.file_meta[f].data_offset + offset
                data == RomSourceRead(at, n)
            IN  /\ lastRom' = RomCall("read_file", path, offset, n, "Ok", Len(data), at, data)
                /\ romPos' = at + Len(data)
    /\ UNCHANGED <<romImg, romSrcLen, existsTrue, ncaVars, pfsVars, frVars>>

(***************************************************************************)
(* Specifications.                                                         *)
(***************************************************************************)
\* an NCA is opened on an archive and its sections are opened; no PFS0 is used
InitNCA ==
    /\ ncaSrc \in NcaSources
    /\ ncaPos = 0
    /\ ncaPc = "start"
    /\ newResult = "none"
    /\ keyset = NoKeyset
    /\ title_key = NoneKey
    /\ hdrRead = ZeroedHeader
    /\ rawFsHeaders = ZeroedFsHeaders
    /\ header = ZeroedHeader
    /\ dec_key_area = KeyAreaEmpty
    /\ dec_title_key = NoneKey
    /\ fs_headers = <<>>
    /\ lastOpen = NoOpen
    /\ okOpens = {}
    /\ pfsSrcLen = 0
    /\ pfsPos = 0
    /\ pfsHeader = [file_count |-> 0, string_table_size |-> 0]
    /\ file_entries = <<>>
    /\ overflowChecks = FALSE
    /\ call = [h \in Handles |-> IdleCall]
    /\ lastRead = NoRead
    /\ readLog = <<>>
    /\ fileReader = NoReader
    /\ lastFr = NoFrCall
    /\ frCursor = 0
    /\ romImg = MakeRomImage(RomDirs, RomFiles(0, 0), 1, 1, 0)
    /\ romSrcLen = 0
    /\ romPos = 0
    /\ lastRom = NoRomCall
    /\ existsTrue = {}

NcaNext ==
    \/ \E ks \in Keysets, tk \in TitleKeys : NewReadHeader(ks, tk)
    \/ NewReadFsHeaders
    \/ \E idx \in 0..MAX_FILESYSTEM_COUNT : open_pfs0_filesystem(idx)
    \/ \E idx \in 0..MAX_FILESYSTEM_COUNT : open_romfs_filesystem(idx)

SpecNCA == InitNCA /\ [][NcaNext]_vars

\* one PFS0 handle, constructed by PFS0::new (which has read the header, the
\* entries and the string table), and no other holder of its source; no NCA
InitPFS0 ==
    /\ \E img \in PfsImages :
         /\ pfsHeader = img.header
         /\ file_entries = img.entries
         /\ pfsSrcLen \in {ImageEnd(img), ImageEnd(img) - 1}
         /\ pfsPos = BaseOffset(img.header)
    /\ overflowChecks \in BOOLEAN
    /\ call = [h \in Handles |-> IdleCall]
    /\ lastRead = NoRead
    /\ readLog = <<>>
    /\ ncaSrc = [len |-> 0, header |-> ZeroedHeader, fs_headers |-> ZeroedFsHeaders]
    /\ ncaPos = 0
    /\ ncaPc = "absent"
    /\ newResult = "none"
    /\ keyset = NoKeyset
    /\ title_key = NoneKey
    /\ hdrRead = ZeroedHeader
    /\ rawFsHeaders = ZeroedFsHeaders
    /\ header = ZeroedHeader
    /\ dec_key_area = KeyAreaEmpty
    /\ dec_title_key = NoneKey
    /\ fs_headers = <<>>
    /\ lastOpen = NoOpen
    /\ okOpens = {}
    /\ fileReader = NoReader
    /\ lastFr = NoFrCall
    /\ frCursor = 0
    /\ romImg = MakeRomImage(RomDirs, RomFiles(0, 0), 1, 1, 0)
    /\ romSrcLen = 0
    /\ romPos = 0
    /\ lastRom = NoRomCall
    /\ existsTrue = {}

PfsSeqNext ==
    \E idx \in FileIndexes, offset \in ReadOffsets, n \in BufLens : read_file(1, idx, offset, n)

SpecPFS0 == InitPFS0 /\ [][PfsSeqNext]_vars

\* two PFS0 handles on clones of one shared source, each on its own thread
InitPFS0Conc ==
    /\ pfsHeader = MakeImage(<<MaxFileSize>>).header
    /\ file_entries = MakeImage(<<MaxFileSize>>).entries
    /\ pfsSrcLen = ImageEnd(MakeImage(<<MaxFileSize>>))
    /\ pfsPos = BaseOffset(MakeImage(<<MaxFileSize>>).header)
    /\ overflowChecks \in BOOLEAN
    /\ call = [h \in Handles |-> IdleCall]
    /\ lastRead = NoRead
    /\ readLog = <<>>
    /\ ncaSrc = [len |-> 0, header |-> ZeroedHeader, fs_headers |-> ZeroedFsHeaders]
    /\ ncaPos = 0
    /\ ncaPc = "absent"
    /\ newResult = "none"
    /\ keyset = NoKeyset
    /\ title_key = NoneKey
    /\ hdrRead = ZeroedHeader
    /\ rawFsHeaders = ZeroedFsHeaders
    /\ header = ZeroedHeader
    /\ dec_key_area = KeyAreaEmpty
    /\ dec_title_key = NoneKey
    /\ fs_headers = <<>>
    /\ lastOpen = NoOpen
    /\ okOpens = {}
    /\ fileReader = NoReader
    /\ lastFr = NoFrCall
    /\ frCursor = 0
    /\ romImg = MakeRomImage(RomDirs, RomFiles(0, 0), 1, 1, 0)
    /\ romSrcLen = 0
    /\ romPos = 0
    /\ lastRom = NoRomCall
    /\ existsTrue = {}

PfsConcNext ==
    \E h \in Handles :
        \/ \E idx \in FileIndexes, offset \in ReadOffsets, n \in BufLens :
             ReadFileSeek(h, idx, offset, n)
        \/ ReadFileRead(h)

SpecPFS0Conc == InitPFS0Conc /\ [][PfsConcNext]_vars

\* a RomFs constructed by RomFs::new on an image, used by one caller; no NCA
\* and no PFS0
InitRomFs ==
    /\ romImg \in RomImages
    /\ romSrcLen \in {RomImageEnd(romImg), RomImageEnd(romImg) - 1}
    /\ romPos = ROM_DATA_OFFSET
    /\ lastRom = NoRomCall
    /\ existsTrue = {}
    /\ ncaSrc = [len |-> 0, header |-> ZeroedHeader, fs_headers |-> ZeroedFsHeaders]
    /\ ncaPos = 0
    /\ ncaPc = "absent"
    /\ newResult = "none"
    /\ keyset = NoKeyset
    /\ title_key = NoneKey
    /\ hdrRead = ZeroedHeader
    /\ rawFsHeaders = ZeroedFsHeaders
    /\ header = ZeroedHeader
    /\ dec_key_area = KeyAreaEmpty
    /\ dec_title_key = NoneKey
    /\ fs_headers = <<>>
    /\ lastOpen = NoOpen
    /\ okOpens = {}
    /\ pfsSrcLen = 0
    /\ pfsPos = 0
    /\ pfsHeader = [file_count |-> 0, string_table_size |-> 0]
    /\ file_entries = <<>>
    /\ overflowChecks = FALSE
    /\ call = [h \in Handles |-> IdleCall]
    /\ lastRead = NoRead
    /\ readLog = <<>>
    /\ fileReader = NoReader
    /\ lastFr = NoFrCall
    /\ frCursor = 0

RomFsNext ==
    \/ \E path \in RomPaths : exists_file(path)
    \/ \E path \in RomPaths : get_file_size(path)
    \/ \E path \in RomPaths, offset \in 0..1, n \in 0..MaxFileSize : RomFsReadFile(path, offset, n)

SpecRomFs == InitRomFs /\ [][RomFsNext]_vars

\* one PFS0 whose caller asks for file readers and seeks and reads on the one
\* it holds; no other holder of the source
InitFileReader ==
    /\ \E img \in PfsImages \cup FarImages :
         /\ pfsHeader = img.header
         /\ file_entries = img.entries
         /\ pfsSrcLen \in {ImageEnd(img), ImageEnd(img) + MaxFileSize + 1}
         /\ pfsPos = BaseOffset(img.header)
    /\ overflowChecks \in BOOLEAN
    /\ call = [h \in Handles |-> IdleCall]
    /\ lastRead = NoRead
    /\ readLog = <<>>
    /\ ncaSrc = [len |-> 0, header |-> ZeroedHeader, fs_headers |-> ZeroedFsHeaders]
    /\ ncaPos = 0
    /\ ncaPc = "absent"
    /\ newResult = "none"
    /\ keyset = NoKeyset
    /\ title_key = NoneKey
    /\ hdrRead = ZeroedHeader
    /\ rawFsHeaders = ZeroedFsHeaders
    /\ header = ZeroedHeader
    /\ dec_key_area = KeyAreaEmpty
    /\ dec_title_key = NoneKey
    /\ fs_headers = <<>>
    /\ lastOpen = NoOpen
    /\ okOpens = {}
    /\ fileReader = NoReader
    /\ lastFr = NoFrCall
    /\ frCursor = 0
    /\ romImg = MakeRomImage(RomDirs, RomFiles(0, 0), 1, 1, 0)
    /\ romSrcLen = 0
    /\ romPos = 0
    /\ lastRom = NoRomCall
    /\ existsTrue = {}

FileReaderNext ==
    \/ \E idx \in FileIndexes : get_file_reader(idx)
    \/ \E kind \in SeekKinds : \E o \in SeekOffsets(kind) : FrSeek(kind, o)
    \/ \E n \in 0..(MaxFileSize + 1) : FrRead(n)

SpecFileReader == InitFileReader /\ [][FileReaderNext]_vars

\* the archives NCA::new is given when its source is shared
SharedSources ==
    { src \in KeyVariedSources :
        /\ src.header.rights_id = 0
        /\ src.header.key_area_encryption_key_index = "Application"
        /\ src.header.key_generation_old = 0 }

\* NCA::new on a source that was used before the call (its cursor is
\* anywhere) and that another holder uses during the call
InitNCAShared ==
    /\ ncaSrc \in SharedSources
    /\ ncaPos \in SharedCursors
    /\ ncaPc = "start"
    /\ newResult = "none"
    /\ keyset = NoKeyset
    /\ title_key = NoneKey
    /\ hdrRead = ZeroedHeader
    /\ rawFsHeaders = ZeroedFsHeaders
    /\ header = ZeroedHeader
    /\ dec_key_area = KeyAreaEmpty
    /\ dec_title_key = NoneKey
    /\ fs_headers = <<>>
    /\ lastOpen = NoOpen
    /\ okOpens = {}
    /\ pfsSrcLen = 0
    /\ pfsPos = 0
    /\ pfsHeader = [file_count |-> 0, string_table_size |-> 0]
    /\ file_entries = <<>>
    /\ overflowChecks = FALSE
    /\ call = [h \in Handles |-> IdleCall]
    /\ lastRead = NoRead
    /\ readLog = <<>>
    /\ fileReader = NoReader
    /\ lastFr = NoFrCall
    /\ frCursor = 0
    /\ romImg = MakeRomImage(RomDirs, RomFiles(0, 0), 1, 1, 0)
    /\ romSrcLen = 0
    /\ romPos = 0
    /\ lastRom = NoRomCall
    /\ existsTrue = {}

NcaSharedNext ==
    \/ \E ks \in Keysets, tk \in TitleKeys : NewReadHeader(ks, tk)
    \/ NewReadFsHeaders
    \/ \E p \in SharedCursors : OtherHolderSeek(p)

SpecNCAShared == InitNCAShared /\ [][NcaSharedNext]_vars

(***************************************************************************)
(* Properties of NCA::new and of the section accessors (SpecNCA).          *)
(***************************************************************************)
\* NCA::new has returned (or panicked)
NewReturned == ncaPc \in {"ready", "failed", "aborted"}

\* the read at nca.rs 322 succeeded: hdrRead is what it decrypted to
HeaderWasRead == hdrRead # ZeroedHeader

\* the effective key generation as the specification states it
EffectiveKeyGen(h) ==
    LET m == IF h.key_generation_old > h.key_generation
             THEN h.key_generation_old ELSE h.key_generation
    IN  IF m >= 1 THEN m - 1 ELSE 0

\* the original indices of the sections whose start_offset is non-zero, in order
RECURSIVE PresentFrom(_, _)
PresentFrom(entries, i) ==
    IF i >= MAX_FILESYSTEM_COUNT THEN <<>>
    ELSE (IF entries[i].start_offset # 0 THEN <<i>> ELSE <<>>) \o PresentFrom(entries, i + 1)

PresentSections == PresentFrom(hdrRead.fs_entries, 0)

\* C1: whenever the decrypted header's magic is not "NCA3", NCA::new returns
\* InvalidInput and constructs no NCA, whatever the keyset, the title key and
\* the other header fields are.
C1_BadMagicRejected ==
    (ncaPc # "start" /\ HeaderWasRead /\ hdrRead.magic # NCA_MAGIC)
        => /\ ncaPc = "failed"
           /\ newResult = "InvalidInput"
           /\ fs_headers = <<>>
           /\ dec_key_area = KeyAreaEmpty
           /\ dec_title_key = NoneKey

C1_Witness ==
    /\ ncaPc = "failed"
    /\ newResult = "InvalidInput"
    /\ hdrRead.magic = "NCA2"
    /\ hdrRead.rights_id = 0
    /\ hdrRead.key_generation = 1
    /\ title_key.some
    /\ Len(keyset.key_area_keys_application) = MaxKeys

\* the CTR key the claim C2 prescribes, for the key-area-key array of kind `kind`
PrescribedCtrKey(kind) ==
    LET g == EffectiveKeyGen(hdrRead) IN
    IF hdrRead.rights_id = 0
    THEN EcbDecrypt(KeyAreaKeys(keyset, kind)[g + 1], hdrRead.encrypted_key_area)[3]
    ELSE AesDecryptBlock(keyset.title_key_encryption_keys[g + 1], title_key.key)

\* C2: after a successful NCA::new the key every section's CTR reader gets is,
\* with g the effective key generation, block 0x20..0x30 of the ECB decryption
\* of the encrypted key area under key-area-key [g] when rights_id is zero, and
\* the ECB decryption of the supplied title key under titlekek [g] otherwise.
C2_CtrKeyDerivation ==
    newResult = "Ok" =>
        \E kind \in SelectedKinds(hdrRead) :
            /\ InBounds(KeyAreaKeys(keyset, kind), EffectiveKeyGen(hdrRead))
            /\ hdrRead.rights_id # 0 =>
                   /\ title_key.some
                   /\ InBounds(keyset.title_key_encryption_keys, EffectiveKeyGen(hdrRead))
            /\ GetAesCtrDecryptKey = PrescribedCtrKey(kind)
            /\ lastOpen.reader.made => lastOpen.reader.key = PrescribedCtrKey(kind)

C2_Witness ==
    /\ newResult = "Ok"
    /\ lastOpen.reader.made
    /\ hdrRead.rights_id # 0
    /\ hdrRead.key_generation_old = 2
    /\ hdrRead.key_generation = 1
    /\ lastOpen.reader.key = AesDecryptBlock(keyset.title_key_encryption_keys[2], title_key.key)

\* C3: open_pfs0_filesystem(i) and open_romfs_filesystem(i) compute fs_start
\* from the section entry of the section whose header sits at active index i,
\* also when a lower section is absent.
C3_EntryPairedWithHeader ==
    (lastOpen.op # "none" /\ lastOpen.fs_start >= 0)
        => lastOpen.fs_start =
               hdrRead.fs_entries[PresentSections[lastOpen.idx + 1]].start_offset * MEDIA_UNIT_SIZE

\* C4: after a successful NCA::new the active list holds exactly the headers of
\* the sections with a non-zero start_offset, in index order, the filesystem
\* count is their number, and no open_*_filesystem call changes either.
C4_ActiveSectionList ==
    newResult = "Ok" =>
        /\ fs_headers = [k \in 1..Len(PresentSections) |-> rawFsHeaders[PresentSections[k]]]
        /\ GetFilesystemCount = Cardinality({i \in Sections : hdrRead.fs_entries[i].start_offset # 0})
        /\ GetFilesystemCount \in 0..MAX_FILESYSTEM_COUNT

C4_Witness ==
    /\ newResult = "Ok"
    /\ lastOpen.result = "Panic"
    /\ hdrRead.fs_entries[0].start_offset = 0
    /\ hdrRead.fs_entries[2].start_offset = 0
    /\ GetFilesystemCount = 2
    /\ fs_headers = <<rawFsHeaders[1], rawFsHeaders[3]>>

\* the section header the last open_*_filesystem call selected
LastOpenHeader == fs_headers[lastOpen.idx + 1]

\* the last call named an active section of the type the operation wants
LastOpenTypeMatches ==
    /\ lastOpen.op # "none"
    /\ lastOpen.idx < Len(fs_headers)
    /\ LastOpenHeader.fs_type = WantedType(lastOpen.op)

\* C9: for an in-range section of the matching type that is sparse or not
\* AesCtr-encrypted, open_*_filesystem returns an Unsupported error: the program
\* is not aborted, no inner reader is made, the NCA stays usable.
C9_UnsupportedIsAnError ==
    (LastOpenTypeMatches
       /\ (LastOpenHeader.generation # 0 \/ LastOpenHeader.encryption_type # "AesCtr"))
        => /\ lastOpen.result = "Unsupported"
           /\ ~lastOpen.reader.made
           /\ ncaPc = "ready"

\* the three ways the key material NCA::new needs can be missing
KeyMaterialMissing ==
    LET g == EffectiveKeyGen(hdrRead) IN
    \/ \A kind \in SelectedKinds(hdrRead) : g >= Len(KeyAreaKeys(keyset, kind))
    \/ hdrRead.rights_id # 0 /\ ~title_key.some
    \/ hdrRead.rights_id # 0 /\ g >= Len(keyset.title_key_encryption_keys)

\* C10 as stated: NCA::new fails with InvalidInput, without indexing a key
\* array out of bounds, whenever the key material it needs is missing.
C10_MissingKeysInvalidInput ==
    (NewReturned /\ HeaderWasRead /\ KeyMaterialMissing) => newResult = "InvalidInput"

\* C10 as amended: the same, provided the four section headers could be read;
\* when that read fails NCA::new returns the read's error (UnexpectedEof).
C10_MissingKeysInvalidInputIfRead ==
    /\ newResult # "Panic"
    /\ (NewReturned /\ HeaderWasRead /\ KeyMaterialMissing)
         => \/ newResult = "InvalidInput"
            \/ /\ newResult = "UnexpectedEof"
               /\ ~CanReadExact(ncaSrc, NCA_HEADER_SIZE, MAX_FILESYSTEM_COUNT * FS_HEADER_SIZE)

C10_Witness ==
    /\ ncaPc = "failed"
    /\ newResult = "InvalidInput"
    /\ hdrRead.magic = NCA_MAGIC
    /\ hdrRead.rights_id # 0
    /\ title_key.some
    /\ EffectiveKeyGen(hdrRead) < Len(keyset.key_area_keys_application)
    /\ hdrRead.key_area_encryption_key_index = "Application"
    /\ EffectiveKeyGen(hdrRead) >= Len(keyset.title_key_encryption_keys)
    /\ Len(keyset.title_key_encryption_keys) > 0

\* the filesystem type the claim C12 ties each operation to
ClaimedType(op) == IF op = "pfs0" THEN "PartitionFs" ELSE "RomFs"

\* the call recorded in lo named no active section, or one of the other type
NotOpenable(lo) ==
    \/ lo.idx >= GetFilesystemCount
    \/ fs_headers[lo.idx + 1].fs_type # ClaimedType(lo.op)

\* a step in which such a call returns: InvalidInput, the cursor of the shared
\* source where it was, no CTR reader made, the NCA still usable
InvalidOpenLeavesSource ==
    (ncaPc = "ready" /\ lastOpen'.op # "none" /\ NotOpenable(lastOpen'))
        => /\ lastOpen'.result = "InvalidInput"
           /\ ~lastOpen'.reader.made
           /\ ncaPos' = ncaPos
           /\ ncaPc' = "ready"
           /\ okOpens' = okOpens

\* for no index have both operations returned Ok
AtMostOneOpens ==
    \A i \in 0..MAX_FILESYSTEM_COUNT : ~(<<"pfs0", i>> \in okOpens /\ <<"romfs", i>> \in okOpens)

\* C12: open_pfs0_filesystem(i) and open_romfs_filesystem(i) return
\* InvalidInput, without touching the shared source or the section's crypto
\* settings, when i >= get_filesystem_count() or the section's fs_type is not
\* the operation's; hence for every i at most one of the two ever succeeds.
C12_TypeAndIndexChecked == [][InvalidOpenLeavesSource]_vars /\ []AtMostOneOpens

\* an open that succeeded moved the cursor; a later call of the other
\* operation on the same section, which is sparse-free and AesCtr, is refused
C12_Witness ==
    /\ ncaPc = "ready"
    /\ <<"pfs0", 0>> \in okOpens
    /\ lastOpen.op = "romfs"
    /\ lastOpen.idx = 0
    /\ lastOpen.result = "InvalidInput"
    /\ fs_headers[1].encryption_type = "AesCtr"
    /\ ncaPos # NCA_HEADER_SIZE + MAX_FILESYSTEM_COUNT * FS_HEADER_SIZE

\* C14: NCA::new parses the header from bytes [0, 0x400) of the source and the
\* section headers from bytes [0x400, 0xC00), wherever the cursor of the shared
\* source is when it is called and whatever other holders do to the cursor
\* between its two reads; a source that holds these ranges is not reported
\* truncated.
C14_ReadsAbsoluteRanges ==
    /\ hdrRead # ZeroedHeader => hdrRead = ncaSrc.header
    /\ rawFsHeaders # ZeroedFsHeaders => rawFsHeaders = ncaSrc.fs_headers
    /\ newResult = "UnexpectedEof"
         => ncaSrc.len < NCA_HEADER_SIZE + MAX_FILESYSTEM_COUNT * FS_HEADER_SIZE

(***************************************************************************)
(* Properties of PFS0::read_file (SpecPFS0, SpecPFS0Conc).                 *)
(***************************************************************************)
\* the last call named a file of the image
LastReadOnFile == lastRead.result # "none" /\ lastRead.idx < Len(file_entries)

LastReadEntry == file_entries[lastRead.idx + 1]

\* where the data of the files begins, as the specification states it
DataBase == PFS0_HEADER_SIZE + pfsHeader.file_count * FILE_ENTRY_SIZE + pfsHeader.string_table_size

\* C5: read_file(i, offset, buf) fails with the out-of-range error (ErrorKind
\* UnexpectedEof in the code) and reads nothing whenever offset + |buf| > size(i)
\* as mathematical integers, and passes the bounds check whenever
\* offset + |buf| <= size(i).
C5_BoundsCheckExact ==
    LastReadOnFile =>
        IF lastRead.offset + lastRead.n > LastReadEntry.size
        THEN lastRead.result = "UnexpectedEof" /\ lastRead.data = <<>>
        ELSE lastRead.result = "Ok"

\* C6: a read_file that passes its checks reads once, at most |buf| bytes, at
\* source offset data_base + entry[i].offset + offset, and returns what the
\* source delivered, so every returned byte lies inside file i's range.
C6_ReadInsideFile ==
    (LastReadOnFile /\ lastRead.result = "Ok") =>
        LET file_start == DataBase + LastReadEntry.offset IN
        /\ lastRead.at = file_start + lastRead.offset
        /\ Len(lastRead.data) <= lastRead.n
        /\ Len(lastRead.data) = SourceReadCount(lastRead.at, lastRead.n)
        /\ \A j \in 1..Len(lastRead.data) :
             /\ lastRead.data[j] = SrcByte(lastRead.at + j - 1)
             /\ file_start <= lastRead.at + j - 1
             /\ lastRead.at + j - 1 < file_start + LastReadEntry.size

\* C7: the seek and the read of one read_file call form one critical section:
\* every read returns the bytes at the offset the same call sought to.
C7_SeekReadAtomic ==
    lastRead.result = "Ok" => lastRead.data = SourceReadData(lastRead.read_offset, lastRead.n)

\* the reads that returned Ok: the logged ones and the last one
OkReads ==
    { readLog[k] : k \in 1..Len(readLog) } \cup
    (IF lastRead.result = "Ok"
     THEN {[idx |-> lastRead.idx, offset |-> lastRead.offset, n |-> lastRead.n, data |-> lastRead.data]}
     ELSE {})

\* the source holds every byte of every file: no read inside a file is short
NoShortRead == pfsSrcLen >= DataBase + file_entries[Len(file_entries)].offset
                                     + file_entries[Len(file_entries)].size

\* C8: on one handle whose source does not short-read, the result of
\* read_file(i, offset, n) does not depend on the earlier calls: the read
\* (0, size) is the concatenation of the reads (0, k) and (k, size - k), in
\* whatever order and however often they were issued, and two reads of one file
\* agree wherever their ranges overlap.
C8_ReadsHistoryIndependent ==
    NoShortRead =>
        /\ \A r \in OkReads : Len(r.data) = r.n
        /\ \A r1, r2 \in OkReads :
             r1.idx = r2.idx =>
                 \A p \in 0..(UsizeMod - 1) :
                     (r1.offset <= p /\ p < r1.offset + r1.n /\ r2.offset <= p /\ p < r2.offset + r2.n)
                         => r1.data[p - r1.offset + 1] = r2.data[p - r2.offset + 1]
        /\ \A whole, left, right \in OkReads :
             (/\ whole.idx = left.idx /\ whole.idx = right.idx
              /\ whole.offset = 0 /\ whole.n = file_entries[whole.idx + 1].size
              /\ left.offset = 0 /\ right.offset = left.n
              /\ right.n = whole.n - left.n)
                 => whole.data = left.data \o right.data

C8_Witness ==
    /\ NoShortRead
    /\ Len(readLog) = 2
    /\ lastRead.result = "Ok" /\ lastRead.idx = 0 /\ lastRead.offset = 0 /\ lastRead.n = 1
    /\ readLog[1].idx = 0 /\ readLog[1].offset = 1 /\ readLog[1].n = 1
    /\ readLog[2].idx = 0 /\ readLog[2].offset = 0 /\ readLog[2].n = 2
    /\ file_entries[1].size = 2
    /\ readLog[2].data = lastRead.data \o readLog[1].data

(***************************************************************************)
(* Properties of the RomFs operations (SpecRomFs).                         *)
(***************************************************************************)
\* C11: once exists_file(p) has returned true, get_file_size(p) succeeds and
\* read_file(p, 0, buf) with |buf| = get_file_size(p) succeeds, whatever calls
\* (for existing and for missing paths) were made before.
C11_ExistingFileReadable ==
    /\ \A p \in existsTrue : FileSizeResult(romImg, p).result = "Ok"
    /\ lastRom.path \in existsTrue =>
         /\ lastRom.op = "get_file_size" => lastRom.result = "Ok"
         /\ (/\ lastRom.op = "read_file"
             /\ lastRom.offset = 0
             /\ lastRom.n = FileSizeResult(romImg, lastRom.path).value)
                => lastRom.result = "Ok"

C11_Witness ==
    /\ lastRom.op = "read_file"
    /\ lastRom.path = <<97>>
    /\ lastRom.path \in existsTrue
    /\ Cardinality(existsTrue) >= 2
    /\ lastRom.offset = 0
    /\ lastRom.n = MaxFileSize
    /\ lastRom.result = "Ok"
    /\ Len(lastRom.data) = MaxFileSize
    /\ lastRom.data[1] = SrcByte(ROM_DATA_OFFSET)

(***************************************************************************)
(* Properties of PFS0::get_file_reader and PFS0FileReader (SpecFileReader).*)
(***************************************************************************)
\* the entry of the file the last get_file_reader call named
LastFrEntry == file_entries[lastFr.arg + 1]

\* C13: for every i < file_count, get_file_reader(i) succeeds and returns a
\* reader whose window starts at data_base + entry[i].offset, not past the
\* file, and is entry[i].size long.
C13_ReaderWindowIsFile ==
    (lastFr.op = "get_file_reader" /\ lastFr.arg < Len(file_entries))
        => /\ lastFr.result = "Ok"
           /\ fileReader.made
           /\ fileReader.idx = lastFr.arg
           /\ fileReader.read_offset = DataBase + LastFrEntry.offset
           /\ fileReader.file_size = LastFrEntry.size

\* the window of the reader, [read_offset, read_offset + file_size]
InWindow(pos) ==
    fileReader.read_offset <= pos /\ pos <= fileReader.read_offset + fileReader.file_size

\* the source position the last seek call asked for
SeekTarget ==
    CASE lastFr.kind = "Start"   -> fileReader.read_offset + lastFr.arg
      [] lastFr.kind = "End"     -> fileReader.read_offset + fileReader.file_size + lastFr.arg
      [] lastFr.kind = "Current" -> lastFr.before + lastFr.arg

\* C15: after any sequence of seek calls on a PFS0FileReader, a seek that
\* returned Ok has left the source inside the reader's window, a seek whose
\* target lies inside the window was accepted, and a rejected seek has left the
\* source where it was.
C15_SeekStaysInWindow ==
    lastFr.op = "seek" =>
        /\ lastFr.result = "Ok" => InWindow(pfsPos)
        /\ InWindow(SeekTarget) => lastFr.result = "Ok"
        /\ lastFr.result # "Ok" => pfsPos = lastFr.before

\* C16: successive reads on a PFS0FileReader return successive bytes of its
\* window: a read returns the bytes from the offset the previous read or seek
\* left off at, at most up to the end of the window, hence nothing once the
\* window is exhausted, and the bytes returned in total never exceed file_size.
C16_ReadsAdvance ==
    (lastFr.op = "read" /\ lastFr.due >= 0) =>
        /\ lastFr.data = SourceReadData(fileReader.read_offset + lastFr.due,
                                        Min(lastFr.arg, fileReader.file_size - lastFr.due))
        /\ frCursor <= fileReader.file_size

====
